---- MODULE Spec2Model ----
(***************************************************************************)
(* JSONBusClient (src/jsonbus.py): a single-connection client for a        *)
(* newline-delimited JSON bus.  The module models the client object's      *)
(* fields, the server's byte stream, the frames written to the socket, the *)
(* dispatch-loop task, the periodic tasks and the run() orchestrator.      *)
(*                                                                         *)
(*   SpecApi  the client's methods called directly (connect, close, send,  *)
(*            receive, subscribe, unsubscribe), as the control scripts do  *)
(*   SpecController  the servo helpers of VehicleController                *)
(*            (src/controller.py) called by a script                       *)
(*   Spec     registration followed by run(): connect, subscribe, the      *)
(*            dispatch loop, the periodic tasks, the interrupt, teardown   *)
(*   SpecReg  Spec started from any registry line 179 can iterate over,    *)
(*            a None filter included                                       *)
(*   SpecRegistration  the registration calls made before run(), with any  *)
(*            interval                                                     *)
(*   SpecLate Spec with callbacks and periodic jobs that register further  *)
(*            callbacks and periodic tasks while run() blocks              *)
(*   SpecLive Spec under the scheduling of the asyncio event loop          *)
(*   SpecListen  Spec with callbacks and periodic jobs that call           *)
(*            stop_listening() and start_listening()                       *)
(*   SpecSenders  periodic jobs that send on the shared connection while   *)
(*            run() blocks, with each send split at its await              *)
(***************************************************************************)
EXTENDS Integers, Sequences, FiniteSets, TLC

VARIABLES
    writer,          \* self._writer: "None", "open", or "closing" (is_closing())
    system_name,     \* self.system_name: NoneVal, "" or a name
    listening,       \* self._listening
    listen_task,     \* self._listen_task: "None" or "task"
    callbacks,       \* self._callbacks: sequence of [filter |-> ...]
    periodic_tasks,  \* self._periodic_tasks: sequence of [interval |-> ...]
    message_buffer,  \* self._message_buffer: decoded messages not yet returned
    inflight,        \* bytes the server has sent that no read has returned yet
    sent,            \* number of frames the server has sent
    wire,            \* frames handed to self._writer.write, in order
    usends,          \* number of direct send/subscribe/unsubscribe calls that wrote
    op,              \* the method called last
    ret,             \* what it returned
    exc,             \* the exception it let propagate ("none" if it returned)
    out,             \* what it printed about the connection, if anything
    rpc,             \* run(): position of _run_async
    handles,         \* run(): periodic_task_handles ("unbound" before line 298)
    lpc,             \* _callback_loop task: position
    cur,             \* _callback_loop: msg being distributed
    idx,             \* _callback_loop: index of the next callback of the for loop
    called,          \* callbacks invoked with cur so far
    failed,          \* a callback raised while cur was being distributed
    running,         \* callbacks invoked and not yet finished
    must_cancel,     \* the loop task was cancelled while it was running: the
                     \* CancelledError is due at its next suspension
    ptask,           \* the _run_periodic_task tasks, one per handle
    decoded,         \* every message appended to the buffer, in order
    taken,           \* every message receive() returned to the loop, in order
    data,            \* receive(): the bytes the latest read returned
    stream           \* the bytes the periodic jobs handed to self._writer.write

vars == <<writer, system_name, listening, listen_task, callbacks, periodic_tasks,
          message_buffer, inflight, sent, wire, usends, op, ret, exc, out, rpc,
          handles, lpc, cur, idx, called, failed, running, must_cancel, ptask,
          decoded, taken, data, stream>>

clientVars == <<writer, system_name, listening, listen_task, callbacks,
                periodic_tasks, message_buffer>>
callVars == <<op, ret, exc, out>>
runVars == <<rpc, handles>>
loopVars == <<lpc, cur, idx, called, failed, running, must_cancel>>
logVars == <<decoded, taken, data, stream>>

(***************************************************************************)
(* Bounds and value domains.                                               *)
(***************************************************************************)
\* registrations plus frames sent by the server, in one behaviour
MaxInputs == 3
\* direct calls that write to the socket, in one behaviour
MaxSends == 3

NoneVal == "None"
Absent == "absent"
Abbrevs == {"A", "B"}
\* an Optional list: None, or a list with its items
NoneList == [isNone |-> TRUE, items |-> <<>>]
List(l) == [isNone |-> FALSE, items |-> l]
\* the message lists a caller passes to add_callback / subscribe
FilterLists == {List(<<>>), List(<<"A">>), List(<<"B">>), List(<<"A", "B">>)}
NoMsg == [abbrev |-> NoneVal]

Range(s) == {s[i] : i \in 1..Len(s)}

(***************************************************************************)
(* Wire format: one frame is the JSON text of a message followed by "\n".  *)
(* A byte string is a sequence of tokens; the JSON object of a message     *)
(* with abbrev a is the two tokens "{a" and "}", "NL" is the newline and   *)
(* "#" is text that is not JSON.                                           *)
(***************************************************************************)
Dumps(m) == << "{" \o m.abbrev, "}" >>

Frame(kind) == IF kind = "bad" THEN << "#", "NL" >>
               ELSE Dumps([abbrev |-> kind]) \o << "NL" >>

\* json.loads(line): the message, or NoMsg for a JSONDecodeError
Loads(line) ==
    IF Len(line) = 2 /\ line[2] = "}" /\ \E a \in Abbrevs : line[1] = "{" \o a
    THEN [abbrev |-> CHOOSE a \in Abbrevs : line[1] = "{" \o a]
    ELSE NoMsg

RECURSIVE StripLeft(_)
StripLeft(s) == IF s # <<>> /\ Head(s) = "NL" THEN StripLeft(Tail(s)) ELSE s

RECURSIVE StripRight(_)
StripRight(s) == IF s # <<>> /\ s[Len(s)] = "NL"
                 THEN StripRight(SubSeq(s, 1, Len(s) - 1)) ELSE s

\* str.strip(): the newline is the only whitespace of the alphabet
Strip(s) == StripRight(StripLeft(s))

RECURSIVE SplitAcc(_, _)
SplitAcc(s, line) ==
    IF s = <<>> THEN << line >>
    ELSE IF Head(s) = "NL" THEN << line >> \o SplitAcc(Tail(s), <<>>)
    ELSE SplitAcc(Tail(s), Append(line, Head(s)))

\* str.split('\n')
Split(s) == SplitAcc(s, <<>>)

\* the for loop of line 129 left at the first line that is not JSON
RECURSIVE ParseLinesBreak(_)
ParseLinesBreak(lines) ==
    IF lines = <<>> THEN <<>>
    ELSE IF Head(lines) = <<>> THEN ParseLinesBreak(Tail(lines))
    ELSE IF Loads(Head(lines)) = NoMsg THEN <<>>
    ELSE << Loads(Head(lines)) >> \o ParseLinesBreak(Tail(lines))

\* lines 129-136
RECURSIVE ParseLines(_)
ParseLines(lines) ==
    IF lines = <<>> THEN <<>>
    ELSE LET line == Head(lines)
             rest == ParseLines(Tail(lines))
         IN  IF line = <<>> \/ Loads(line) = NoMsg THEN rest
             ELSE << Loads(line) >> \o rest

\* receive(), lines 125-136: the messages one read appends to the buffer
DecodeBatch(bytes) == ParseLines(Split(Strip(bytes)))

(***************************************************************************)
(* require_connection: the decorated method runs only if this holds.       *)
(***************************************************************************)
RequireConnectionNoWriterCheck(w, sn) == sn # NoneVal /\ w # "closing"

RequireConnection(w, sn) == w # "None" /\ sn # NoneVal /\ w # "closing"

\* what the decorator prints when it refuses
Refusal(w, sn) == IF w = "None" \/ sn = NoneVal THEN "Not connected to server"
                  ELSE "Connection closed"

(***************************************************************************)
(* send(), lines 99-104.                                                   *)
(***************************************************************************)
\* the message after lines 99-100
WithSrcAlways(m, use, sn) ==
    IF use /\ sn # NoneVal /\ sn # "" THEN [m EXCEPT !.src = sn] ELSE m

WithSrc(m, use, sn) ==
    IF use /\ sn # NoneVal /\ sn # "" /\ m.src = Absent
    THEN [m EXCEPT !.src = sn] ELSE m

Msg(a, s) == [command |-> Absent, abbrev |-> a, src |-> s, messages |-> <<>>]
Cmd(c, ms) == [command |-> c, abbrev |-> Absent, src |-> Absent, messages |-> ms]

\* subscribe(), lines 154-157: the command it sends
SubscribeCmd(messages) ==
    IF ~messages.isNone /\ messages.items # <<>>
    THEN Cmd("subscribe", messages.items)
    ELSE Cmd("subscribe_all", <<>>)

UnsubscribeCmd == Cmd("unsubscribe", <<>>)

(***************************************************************************)
(* The state after JSONBusClient.__init__.                                 *)
(***************************************************************************)
Init ==
    /\ writer = "None"
    /\ system_name = NoneVal
    /\ listening = FALSE
    /\ listen_task = "None"
    /\ callbacks = <<>>
    /\ periodic_tasks = <<>>
    /\ message_buffer = <<>>
    /\ inflight = <<>>
    /\ sent = 0
    /\ wire = <<>>
    /\ usends = 0
    /\ op = "init"
    /\ ret = NoneVal
    /\ exc = "none"
    /\ out = ""
    /\ rpc = "idle"
    /\ handles = "unbound"
    /\ lpc = "none"
    /\ cur = NoMsg
    /\ idx = 0
    /\ called = {}
    /\ failed = FALSE
    /\ running = {}
    /\ must_cancel = FALSE
    /\ ptask = <<>>
    /\ decoded = <<>>
    /\ taken = <<>>
    /\ data = <<>>
    /\ stream = <<>>

(***************************************************************************)
(* connect(), lines 61-78.  h is what the server does:                     *)
(*   refused       open_connection raises ConnectionRefusedError           *)
(*   name, empty   the welcome is a JSON object with that system_name      *)
(*   no_name       the welcome is a JSON object without system_name        *)
(*   malformed     the welcome is not JSON (JSONDecodeError, caught)       *)
(*   timeout       no welcome within 5 s (TimeoutError, caught)            *)
(*   not_utf8      the welcome does not decode (UnicodeDecodeError, which  *)
(*                 neither except clause catches)                          *)
(***************************************************************************)
Handshakes == {"refused", "name", "empty", "no_name", "malformed", "timeout",
               "not_utf8"}

ConnectRaises(h) == CASE h = "refused" -> "ConnectionRefusedError"
                      [] h = "not_utf8" -> "UnicodeDecodeError"
                      [] OTHER -> "none"

ConnectName(h) == CASE h = "name" -> "vehicle01"
                    [] h = "empty" -> ""
                    [] OTHER -> NoneVal

\* the effect of connect() on the client and the stream
ConnectEffect(h) ==
    IF h = "refused" THEN UNCHANGED <<writer, system_name, inflight>>
    ELSE /\ writer' = "open"
         /\ inflight' = <<>>
         /\ system_name' = IF h = "not_utf8" THEN system_name ELSE ConnectName(h)

Connect(h) ==
    /\ rpc = "idle"
    /\ ConnectEffect(h)
    /\ op' = "connect"
    /\ ret' = IF ConnectRaises(h) = "none" THEN ConnectName(h) ELSE NoneVal
    /\ exc' = ConnectRaises(h)
    /\ out' = ""
    /\ UNCHANGED <<listening, listen_task, callbacks, periodic_tasks,
                   message_buffer, sent, wire, usends>>
    /\ UNCHANGED <<runVars, loopVars, ptask, logVars>>

(***************************************************************************)
(* close(), lines 83-88.  wait_closed() re-raises the error a lost         *)
(* connection ended with, before _writer is reset.                         *)
(***************************************************************************)
CloseOutcomes(w) == IF w = "closing" THEN {"ok", "reset"} ELSE {"ok"}

CloseEffect(c) ==
    IF writer = "None" \/ c = "ok" THEN writer' = "None" ELSE writer' = "closing"

\* close() without the test of line 83
CloseRaisesUnguarded(c) == IF writer = "None" THEN "AttributeError"
                           ELSE IF c = "reset" THEN "ConnectionResetError"
                           ELSE "none"

CloseRaises(c) == IF writer # "None" /\ c = "reset" THEN "ConnectionResetError"
                  ELSE "none"

\* line 88, reached only when there was a writer and wait_closed() returned
CloseOut(c) == IF writer # "None" /\ c = "ok" THEN "Connection closed" ELSE ""

Close(c) ==
    /\ rpc = "idle"
    /\ c \in CloseOutcomes(writer)
    /\ CloseEffect(c)
    /\ op' = "close"
    /\ ret' = NoneVal
    /\ exc' = CloseRaises(c)
    /\ out' = CloseOut(c)
    /\ UNCHANGED <<system_name, listening, listen_task, callbacks, periodic_tasks,
                   message_buffer, inflight, sent, wire, usends>>
    /\ UNCHANGED <<runVars, loopVars, ptask, logVars>>

\* the peer or the network ends the connection: is_closing() becomes true
ConnectionLost ==
    /\ writer = "open"
    /\ writer' = "closing"
    /\ UNCHANGED <<system_name, listening, listen_task, callbacks, periodic_tasks,
                   message_buffer, inflight, sent, wire, usends>>
    /\ UNCHANGED <<callVars, runVars, loopVars, ptask, logVars>>

(***************************************************************************)
(* send() behind require_connection.  d is what drain() does: "ok", or     *)
(* "reset" when the connection is lost while the write is flushed.         *)
(***************************************************************************)
Drains == {"ok", "reset"}

\* [wire, writer, exc, out]: the effect and the outcome of one call
Refused == [wire |-> wire, writer |-> writer, exc |-> "none",
            out |-> Refusal(writer, system_name)]

\* lines 99-104 with w written so far and the writer wr; self._writer.write on
\* None raises AttributeError
SendBodyOn(w, wr, m, use, d) ==
    IF wr = "None"
    THEN [wire |-> w, writer |-> wr, exc |-> "AttributeError", out |-> ""]
    ELSE [wire |-> Append(w, WithSrc(m, use, system_name)),
          writer |-> IF d = "ok" THEN wr ELSE "closing",
          exc |-> IF d = "ok" THEN "none" ELSE "ConnectionResetError",
          out |-> ""]

SendBody(m, use, d) == SendBodyOn(wire, writer, m, use, d)

\* send() behind its decorator, with w written so far and the writer wr
GuardedSendOn(w, wr, m, use, d) ==
    IF RequireConnection(wr, system_name) THEN SendBodyOn(w, wr, m, use, d)
    ELSE [wire |-> w, writer |-> wr, exc |-> "none",
          out |-> Refusal(wr, system_name)]

GuardedSend(m, use, d) == GuardedSendOn(wire, writer, m, use, d)

\* subscribe() and unsubscribe() are decorated too, and call the decorated send
GuardedCommand(c, d) ==
    IF RequireConnection(writer, system_name) THEN GuardedSend(c, FALSE, d)
    ELSE Refused

\* a direct call may write only while the budget lasts; a refused one always may
MayCall == usends < MaxSends \/ ~RequireConnection(writer, system_name)

Wrote == Len(wire') > Len(wire)

\* a direct call of a decorated writing method, with what it did
ApiCall(name, r) ==
    /\ rpc = "idle"
    /\ MayCall
    /\ wire' = r.wire
    /\ writer' = r.writer
    /\ op' = name
    /\ ret' = NoneVal
    /\ exc' = r.exc
    /\ out' = r.out
    /\ usends' = IF Wrote THEN usends + 1 ELSE usends
    /\ UNCHANGED <<system_name, listening, listen_task, callbacks, periodic_tasks,
                   message_buffer, inflight, sent>>
    /\ UNCHANGED <<runVars, loopVars, ptask, logVars>>

\* the messages a caller sends: with and without a src of its own
UserMsgs == {Msg("A", Absent), Msg("A", "other")}

Send(m, use, d) == ApiCall("send", GuardedSend(m, use, d))

Subscribe(messages, d) ==
    ApiCall("subscribe", GuardedCommand(SubscribeCmd(messages), d))

\* the arguments a caller passes to subscribe
SubscribeArgs == {NoneList, List(<<>>), List(<<"A">>)}

Unsubscribe(d) == ApiCall("unsubscribe", GuardedCommand(UnsubscribeCmd, d))

(***************************************************************************)
(* receive(), lines 114-148.  rd is what self._reader.read does: "data"    *)
(* returns the first n bytes in flight, "timeout" is the TimeoutError of   *)
(* wait_for, "eof" an empty read, "error" any other exception; the last    *)
(* three all make receive() return None.                                   *)
(***************************************************************************)
Reads == {[how |-> w, n |-> 0] : w \in {"timeout", "eof", "error"}}
         \cup {[how |-> "data", n |-> k] : k \in 1..Len(inflight)}

\* list.pop(): the mutant of pop(0)
PopLast(buf) == [msg |-> buf[Len(buf)], rest |-> SubSeq(buf, 1, Len(buf) - 1)]

\* list.pop(0), lines 117 and 140
Pop(buf) == [msg |-> Head(buf), rest |-> Tail(buf)]

\* [msg, buffer, inflight, batch, data]: the result and the effect of the body
ReceiveBody(rd) ==
    IF message_buffer # <<>>
    THEN [msg |-> Pop(message_buffer).msg, buffer |-> Pop(message_buffer).rest,
          inflight |-> inflight, batch |-> <<>>, data |-> data]
    ELSE IF rd.how # "data"
    THEN [msg |-> NoMsg, buffer |-> message_buffer, inflight |-> inflight,
          batch |-> <<>>, data |-> data]
    ELSE LET read == SubSeq(inflight, 1, rd.n)
             batch == DecodeBatch(read)
             buf == message_buffer \o batch
             left == SubSeq(inflight, rd.n + 1, Len(inflight))
         IN  IF buf # <<>>
             THEN [msg |-> Pop(buf).msg, buffer |-> Pop(buf).rest,
                   inflight |-> left, batch |-> batch, data |-> read]
             ELSE [msg |-> NoMsg, buffer |-> buf, inflight |-> left,
                   batch |-> batch, data |-> read]

\* behind require_connection
GuardedReceive(rd) ==
    IF RequireConnection(writer, system_name) THEN ReceiveBody(rd)
    ELSE [msg |-> NoMsg, buffer |-> message_buffer, inflight |-> inflight,
          batch |-> <<>>, data |-> data]

Receive(rd) ==
    /\ rpc = "idle"
    /\ rd \in Reads
    /\ LET r == GuardedReceive(rd)
       IN  /\ message_buffer' = r.buffer
           /\ inflight' = r.inflight
           /\ decoded' = decoded \o r.batch
           /\ data' = r.data
           /\ ret' = r.msg.abbrev
    /\ op' = "receive"
    /\ exc' = "none"
    /\ out' = IF RequireConnection(writer, system_name) THEN ""
              ELSE Refusal(writer, system_name)
    /\ UNCHANGED <<writer, system_name, listening, listen_task, callbacks,
                   periodic_tasks, sent, wire, usends, taken, stream>>
    /\ UNCHANGED <<runVars, loopVars, ptask>>

NextApi ==
    \/ \E h \in Handshakes : Connect(h)
    \/ \E c \in {"ok", "reset"} : Close(c)
    \/ ConnectionLost
    \/ \E m \in UserMsgs, use \in BOOLEAN, d \in Drains : Send(m, use, d)
    \/ \E ms \in SubscribeArgs, d \in Drains : Subscribe(ms, d)
    \/ \E d \in Drains : Unsubscribe(d)
    \/ \E rd \in Reads : Receive(rd)

SpecApi == Init /\ [][NextApi]_vars

(***************************************************************************)
(* VehicleController (src/controller.py), a JSONBusClient with the servo   *)
(* helpers.  A servo is named by an int or by a str.                       *)
(***************************************************************************)
num_fins == 8

id_fins == [port |-> 1, starboard |-> 2, up |-> 3, down |-> 0, front_port |-> 5,
            rear_port |-> 7, front_starboard |-> 4, rear_starboard |-> 6]

IntName(n) == [isInt |-> TRUE, n |-> n, s |-> ""]
StrName(t) == [isInt |-> FALSE, n |-> 0, s |-> t]

\* str.lower() on the names a caller passes
Lower(t) == CASE t = "UP" -> "up"
              [] t = "Port" -> "port"
              [] OTHER -> t

\* get_servo_id(), lines 32-44
get_servo_id(name) ==
    IF name.isInt
    THEN IF name.n < 0 \/ name.n >= num_fins THEN -1 ELSE name.n
    ELSE IF Lower(name.s) \in DOMAIN id_fins THEN id_fins[Lower(name.s)] ELSE -1

\* lines 64-66
ServoMsg(servo_id, value) ==
    [abbrev |-> "DesiredServoPosition", id |-> servo_id, position |-> value,
     src |-> Absent]

\* set_servo_position(), lines 59-69, with w written so far and the writer wr
SetServoPositionOn(w, wr, servo_name, value, d) ==
    IF get_servo_id(servo_name) = -1
    THEN [wire |-> w, writer |-> wr, exc |-> "none", out |-> "", ret |-> "False"]
    ELSE LET r == GuardedSendOn(w, wr, ServoMsg(get_servo_id(servo_name), value),
                                TRUE, d)
         IN  [wire |-> r.wire, writer |-> r.writer, exc |-> r.exc, out |-> r.out,
              ret |-> NoneVal]

\* stop(), lines 74-75, from the iteration for id on: the connection is lost
\* at the drain of iteration k (never, if k = num_fins), and an exception of
\* set_servo_position leaves the loop
RECURSIVE StopFrom(_, _, _, _, _)
StopFrom(id, w, wr, o, k) ==
    IF id = num_fins
    THEN [wire |-> w, writer |-> wr, exc |-> "none", out |-> o, ret |-> NoneVal]
    ELSE LET r == SetServoPositionOn(w, wr, IntName(id), "0.0",
                                     IF id = k THEN "reset" ELSE "ok")
         IN  IF r.exc # "none" THEN [r EXCEPT !.ret = NoneVal]
             ELSE StopFrom(id + 1, r.wire, r.writer, r.out, k)

\* a call of a controller method by the script, with what it did
ControllerCall(name, r) ==
    /\ rpc = "idle"
    /\ MayCall
    /\ wire' = r.wire
    /\ writer' = r.writer
    /\ op' = name
    /\ ret' = r.ret
    /\ exc' = r.exc
    /\ out' = r.out
    /\ usends' = IF Wrote THEN usends + 1 ELSE usends
    /\ UNCHANGED <<system_name, listening, listen_task, callbacks, periodic_tasks,
                   message_buffer, inflight, sent>>
    /\ UNCHANGED <<runVars, loopVars, ptask, logVars>>

\* the servo names and the positions a script passes
ServoNames == {IntName(8), StrName("UP"), StrName("fin")}
Positions == {"0.5"}
\* the iterations of stop() at whose drain the connection can be lost
LostAt == {2, num_fins}

SetServoPosition(servo_name, value, d) ==
    ControllerCall("set_servo_position",
                   SetServoPositionOn(wire, writer, servo_name, value, d))

Stop(k) == ControllerCall("stop", StopFrom(0, wire, writer, "", k))

NextController ==
    \/ \E h \in Handshakes : Connect(h)
    \/ \E c \in {"ok", "reset"} : Close(c)
    \/ ConnectionLost
    \/ \E n \in ServoNames, v \in Positions, d \in Drains :
          SetServoPosition(n, v, d)
    \/ \E k \in LostAt : Stop(k)

SpecController == Init /\ [][NextController]_vars

(***************************************************************************)
(* Registration, lines 211-255.  callable says whether the handler is      *)
(* callable, coroutine whether the job is a coroutine function.            *)
(***************************************************************************)
Inputs == Len(callbacks) + Len(periodic_tasks) + sent

\* add_callback(), lines 226-233
RegisterCallback(callable, messages) ==
    /\ Inputs < MaxInputs
    /\ IF ~callable \/ messages.isNone
       THEN exc' = "ValueError" /\ callbacks' = callbacks
       ELSE exc' = "none" /\ callbacks' = Append(callbacks, [filter |-> messages])
    /\ op' = "add_callback"
    /\ ret' = NoneVal
    /\ out' = ""
    /\ UNCHANGED <<writer, system_name, listening, listen_task, periodic_tasks,
                   message_buffer, inflight, sent, wire, usends>>
    /\ UNCHANGED <<runVars, loopVars, ptask, logVars>>

\* the script registers before it calls run(), which blocks
AddCallback(callable, messages) ==
    rpc = "idle" /\ RegisterCallback(callable, messages)

Intervals == {1}

\* add_periodic_task(), lines 251-255
RegisterPeriodicTask(coroutine, interval) ==
    /\ Inputs < MaxInputs
    /\ IF ~coroutine
       THEN exc' = "ValueError" /\ periodic_tasks' = periodic_tasks
       ELSE /\ exc' = "none"
            /\ periodic_tasks' = Append(periodic_tasks, [interval |-> interval])
    /\ op' = "add_periodic_task"
    /\ ret' = NoneVal
    /\ out' = ""
    /\ UNCHANGED <<writer, system_name, listening, listen_task, callbacks,
                   message_buffer, inflight, sent, wire, usends>>
    /\ UNCHANGED <<runVars, loopVars, ptask, logVars>>

AddPeriodicTask(coroutine, interval) ==
    rpc = "idle" /\ RegisterPeriodicTask(coroutine, interval)

\* neither method looks at the state of run(): a callback or a periodic job
\* can call them while run() blocks
InCallbackOrJob ==
    \/ running # {}
    \/ \E i \in DOMAIN ptask : ptask[i].pc = "job"

LateAddCallback(callable, messages) ==
    InCallbackOrJob /\ RegisterCallback(callable, messages)

LateAddPeriodicTask(coroutine, interval) ==
    InCallbackOrJob /\ RegisterPeriodicTask(coroutine, interval)

(***************************************************************************)
(* The server sends one more frame; a "bad" one is a line that is not      *)
(* JSON.  Frames sent once teardown has begun are never read.              *)
(***************************************************************************)
FrameKinds == Abbrevs \cup {"bad"}

ServerSend(kind) ==
    /\ rpc \in {"subscribe", "start", "block"}
    /\ writer = "open"
    /\ Inputs < MaxInputs
    /\ inflight' = inflight \o Frame(kind)
    /\ sent' = sent + 1
    /\ UNCHANGED <<writer, system_name, listening, listen_task, callbacks,
                   periodic_tasks, message_buffer, wire, usends>>
    /\ UNCHANGED <<callVars, runVars, loopVars, ptask, logVars>>

(***************************************************************************)
(* _callback_loop, lines 170-188, as the task start_listening creates.     *)
(* lpc: "none" no task, "recv" at the while test / in receive(),           *)
(* "dispatch" in the for loop over the callbacks, "handler" in the call of *)
(* callback idx, "done" finished.                                          *)
(***************************************************************************)
\* line 179
Matches(filter, msg) == filter.isNone \/ msg.abbrev \in Range(filter.items)

\* receive() reaches its await only at line 120: the decorator returns
\* without one when it refuses, and so does line 117 when a message is buffered
SuspendsInReceive ==
    RequireConnection(writer, system_name) /\ message_buffer = <<>>

\* one pass of the while loop up to the for loop.  The CancelledError of a
\* cancel() made while the task was running is raised at the await of line 120
LoopRecv(rd) ==
    /\ lpc = "recv"
    /\ rd \in Reads
    /\ IF ~listening
       THEN /\ lpc' = "done"
            /\ UNCHANGED <<message_buffer, inflight, decoded, taken, data, cur,
                           idx, called>>
       ELSE IF must_cancel /\ SuspendsInReceive
       THEN /\ lpc' = "done"
            /\ UNCHANGED <<message_buffer, inflight, decoded, taken, data, cur,
                           idx, called>>
       ELSE LET r == GuardedReceive(rd)
            IN  /\ message_buffer' = r.buffer
                /\ inflight' = r.inflight
                /\ decoded' = decoded \o r.batch
                /\ data' = r.data
                /\ IF r.msg # NoMsg
                   THEN /\ cur' = r.msg
                        /\ idx' = 1
                        /\ called' = {}
                        /\ taken' = Append(taken, r.msg)
                        /\ lpc' = "dispatch"
                   ELSE UNCHANGED <<cur, idx, called, taken, lpc>>
    /\ UNCHANGED <<writer, system_name, listening, listen_task, callbacks,
                   periodic_tasks, sent, wire, usends, failed, running,
                   stream>>
    /\ must_cancel' = (must_cancel /\ lpc' # "done")
    /\ UNCHANGED <<callVars, runVars, ptask>>

\* a callback started as a task of its own instead of being awaited
NotAwaited(i) == [lpc |-> "dispatch", idx |-> i + 1]

\* lines 181-184: the loop goes on only when callback i has finished
Await(i) == [lpc |-> "handler", idx |-> i]

\* one pass of the for loop: callback idx is skipped or invoked
LoopDispatch ==
    /\ lpc = "dispatch"
    /\ IF idx > Len(callbacks)
       THEN lpc' = "recv" /\ UNCHANGED <<idx, called, running>>
       ELSE IF ~Matches(callbacks[idx].filter, cur)
       THEN idx' = idx + 1 /\ UNCHANGED <<lpc, called, running>>
       ELSE /\ called' = called \cup {idx}
            /\ running' = running \cup {idx}
            /\ lpc' = Await(idx).lpc
            /\ idx' = Await(idx).idx
    /\ UNCHANGED <<cur, failed, must_cancel>>
    /\ UNCHANGED <<clientVars, inflight, sent, wire, usends>>
    /\ UNCHANGED <<callVars, runVars, ptask, logVars>>

\* callback i finishes: it returns (o = "ok") and the for loop goes on, or it
\* raises (o = "raise"), which line 186 catches and line 188 answers by leaving
\* the while loop
HandlerEnds(i, o) ==
    /\ i \in running
    /\ running' = running \ {i}
    /\ IF lpc = "handler" /\ idx = i
       THEN IF o = "ok"
            THEN lpc' = "dispatch" /\ idx' = idx + 1 /\ failed' = failed
            ELSE lpc' = "done" /\ idx' = idx /\ failed' = TRUE
       ELSE UNCHANGED <<lpc, idx, failed>>
    /\ UNCHANGED <<cur, called>>
    /\ must_cancel' = (must_cancel /\ lpc' # "done")
    /\ UNCHANGED <<clientVars, inflight, sent, wire, usends>>
    /\ UNCHANGED <<callVars, runVars, ptask, logVars>>

\* a stop_listening() that only clears the flag
NotCancelled(pc) == pc

\* Task.cancel() on the loop task: CancelledError at its await ends it
Cancelled(pc) == IF pc \in {"recv", "dispatch", "handler"} THEN "done" ELSE pc

\* start_listening(), lines 195-198
StartListening ==
    IF ~listening
    THEN listening' = TRUE /\ listen_task' = "task" /\ lpc' = "recv"
         /\ running' = running /\ must_cancel' = FALSE
    ELSE UNCHANGED <<listening, listen_task, lpc, running, must_cancel>>

\* stop_listening(), lines 204-209
StopListening ==
    IF listening
    THEN /\ listening' = FALSE
         /\ listen_task' = "None"
         /\ lpc' = IF listen_task # "None" THEN Cancelled(lpc) ELSE lpc
         /\ running' = IF listen_task # "None" THEN {} ELSE running
         /\ must_cancel' = IF listen_task # "None" THEN FALSE ELSE must_cancel
    ELSE UNCHANGED <<listening, listen_task, lpc, running, must_cancel>>

(***************************************************************************)
(* _run_periodic_task, lines 259-266, one task per handle.                 *)
(* pc: "new" created, "job" in await task(), "sleep" in asyncio.sleep,     *)
(* "done" finished.  cancelled: where the task was when it was cancelled   *)
(* ("no" if it was not).  gap: what preceded the latest invocation of the  *)
(* job: "first" nothing, "slept" a full sleep, "none" the previous         *)
(* invocation directly.                                                    *)
(***************************************************************************)
NewTask == [pc |-> "new", cancelled |-> "no", gap |-> "first", todo |-> <<>>]

\* the while test of line 259
LoopHead(l) == IF l THEN "job" ELSE "done"

PStart(i) ==
    /\ i \in DOMAIN ptask
    /\ ptask[i].pc = "new"
    /\ ptask' = [ptask EXCEPT ![i].pc = LoopHead(listening)]
    /\ UNCHANGED <<clientVars, inflight, sent, wire, usends>>
    /\ UNCHANGED <<callVars, runVars, loopVars, logVars>>

\* task() returns: line 262
PJobReturns(i) ==
    /\ i \in DOMAIN ptask
    /\ ptask[i].pc = "job"
    /\ ptask' = [ptask EXCEPT ![i].pc = "sleep"]
    /\ UNCHANGED <<clientVars, inflight, sent, wire, usends>>
    /\ UNCHANGED <<callVars, runVars, loopVars, logVars>>

\* task() raises: lines 265-266, then the while test again
PJobRaises(i) ==
    /\ i \in DOMAIN ptask
    /\ ptask[i].pc = "job"
    /\ ptask' = [ptask EXCEPT ![i].pc = LoopHead(listening),
                              ![i].gap = IF listening THEN "none" ELSE @]
    /\ UNCHANGED <<clientVars, inflight, sent, wire, usends>>
    /\ UNCHANGED <<callVars, runVars, loopVars, logVars>>

\* the sleep of line 262 runs its full interval, then the while test again
PSleepElapsed(i) ==
    /\ i \in DOMAIN ptask
    /\ ptask[i].pc = "sleep"
    /\ ptask' = [ptask EXCEPT ![i].pc = LoopHead(listening),
                              ![i].gap = IF listening THEN "slept" ELSE @]
    /\ UNCHANGED <<clientVars, inflight, sent, wire, usends>>
    /\ UNCHANGED <<callVars, runVars, loopVars, logVars>>

\* a cancellation that does not interrupt the sleep
CancelIgnoredInSleep(pc) == IF pc = "sleep" THEN "sleep" ELSE "done"

\* task_handle.cancel(): a task not yet started never runs; CancelledError
\* raised at await task() or at the sleep reaches line 263, which breaks
OnCancel(pc) == CASE pc = "new" -> "done"
                  [] pc = "job" -> "done"
                  [] pc = "sleep" -> "done"
                  [] OTHER -> pc

CancelTask(t) == IF t.pc = "done" THEN t
                 ELSE [t EXCEPT !.pc = OnCancel(t.pc), !.cancelled = t.pc]

(***************************************************************************)
(* run(), lines 278-331: _run_async under asyncio.run.                     *)
(* rpc: "idle" not called, "subscribe" connect returned, "start"           *)
(* subscribed, "block" in the while loop of line 309, "gather" awaiting    *)
(* the cancelled periodic tasks, "close" unsubscribe done, "returned",     *)
(* "raised" an exception left run().                                       *)
(***************************************************************************)
\* truthiness of a filter, line 286
Truthy(filter) == ~filter.isNone /\ filter.items # <<>>

\* lines 284-287
AllMessages ==
    UNION {Range(callbacks[i].filter.items) :
             i \in {j \in 1..Len(callbacks) : Truthy(callbacks[j].filter)}}

\* list(all_messages): the set in any order
ListsOf(S) == {q \in [1..Cardinality(S) -> S] : Range(q) = S}

\* the finally block entered before line 298 has bound periodic_task_handles:
\* stop_listening(), then line 320 raises UnboundLocalError
FinallyUnbound ==
    /\ StopListening
    /\ rpc' = "raised"
    /\ exc' = "UnboundLocalError"
    /\ UNCHANGED <<handles, ptask>>

\* what the server does when run() connects; an empty system name makes a
\* difference only to the src of a regular message, and run() sends none
RunHandshakes == Handshakes \ {"empty"}

\* lines 281: connect()
RunConnect(h) ==
    /\ rpc = "idle"
    /\ ConnectEffect(h)
    /\ IF ConnectRaises(h) # "none" THEN FinallyUnbound
       ELSE /\ rpc' = "subscribe"
            /\ exc' = "none"
            /\ UNCHANGED <<listening, listen_task, lpc, running, must_cancel,
                           handles, ptask>>
    /\ op' = "run"
    /\ ret' = NoneVal
    /\ out' = ""
    /\ UNCHANGED <<callbacks, periodic_tasks, message_buffer, sent, wire, usends,
                   cur, idx, called, failed>>
    /\ UNCHANGED logVars

\* lines 284-292: the subscription
RunSubscribe(l, d) ==
    /\ rpc = "subscribe"
    /\ l \in ListsOf(AllMessages)
    /\ LET r == IF AllMessages # {} THEN GuardedCommand(SubscribeCmd(List(l)), d)
                ELSE [wire |-> wire, writer |-> writer, exc |-> "none", out |-> ""]
       IN  /\ wire' = r.wire
           /\ writer' = r.writer
           /\ out' = r.out
           /\ IF r.exc # "none" THEN FinallyUnbound
              ELSE /\ rpc' = "start"
                   /\ UNCHANGED <<listening, listen_task, lpc, running,
                                  must_cancel, handles, ptask, exc>>
    /\ UNCHANGED <<system_name, callbacks, periodic_tasks, message_buffer,
                   inflight, sent, usends, op, ret, cur, idx, called, failed>>
    /\ UNCHANGED logVars

\* lines 295-310: start_listening(), one task per periodic registration, then
\* the first sleep of the blocking loop
RunStart ==
    /\ rpc = "start"
    /\ StartListening
    /\ handles' = "bound"
    /\ ptask' = [i \in 1..Len(periodic_tasks) |-> NewTask]
    /\ rpc' = "block"
    /\ UNCHANGED <<writer, system_name, callbacks, periodic_tasks, message_buffer,
                   inflight, sent, wire, usends, cur, idx, called, failed>>
    /\ UNCHANGED <<callVars, logVars>>

\* lines 327: unsubscribe(), reached with the handles bound
UnsubscribeStep(d) ==
    LET r == GuardedCommand(UnsubscribeCmd, d)
    IN  /\ wire' = r.wire
        /\ writer' = r.writer
        /\ out' = r.out
        /\ IF r.exc # "none" THEN rpc' = "raised" /\ exc' = r.exc
           ELSE rpc' = "close" /\ exc' = exc

\* Ctrl+C while run() blocks: lines 312-321, and line 327 when there is no
\* periodic task to await
Interrupt(d) ==
    /\ rpc = "block"
    /\ StopListening
    /\ ptask' = [i \in DOMAIN ptask |-> CancelTask(ptask[i])]
    /\ IF Len(ptask) > 0
       THEN rpc' = "gather" /\ UNCHANGED <<wire, writer, out, exc>>
       ELSE UnsubscribeStep(d)
    /\ UNCHANGED <<system_name, callbacks, periodic_tasks, message_buffer,
                   inflight, sent, usends, op, ret, handles, cur, idx, called,
                   failed>>
    /\ UNCHANGED logVars

\* lines 324-327: gather returns when every periodic task has finished
RunGather(d) ==
    /\ rpc = "gather"
    /\ \A i \in DOMAIN ptask : ptask[i].pc = "done"
    /\ UnsubscribeStep(d)
    /\ UNCHANGED <<system_name, listening, listen_task, callbacks, periodic_tasks,
                   message_buffer, inflight, sent, usends, op, ret, handles>>
    /\ UNCHANGED <<loopVars, ptask, logVars>>

\* line 328: close(), then run() returns
RunClose(c) ==
    /\ rpc = "close"
    /\ c \in CloseOutcomes(writer)
    /\ CloseEffect(c)
    /\ exc' = CloseRaises(c)
    /\ out' = CloseOut(c)
    /\ rpc' = IF CloseRaises(c) # "none" THEN "raised" ELSE "returned"
    /\ UNCHANGED <<system_name, listening, listen_task, callbacks, periodic_tasks,
                   message_buffer, inflight, sent, wire, usends, op, ret, handles>>
    /\ UNCHANGED <<loopVars, ptask, logVars>>

Next ==
    \/ \E c \in BOOLEAN, ms \in FilterLists \cup {NoneList} : AddCallback(c, ms)
    \/ \E c \in BOOLEAN, n \in Intervals : AddPeriodicTask(c, n)
    \/ \E h \in RunHandshakes : RunConnect(h)
    \/ \E l \in ListsOf(AllMessages), d \in Drains : RunSubscribe(l, d)
    \/ RunStart
    \/ \E d \in Drains : Interrupt(d)
    \/ \E d \in Drains : RunGather(d)
    \/ \E c \in {"ok", "reset"} : RunClose(c)
    \/ \E k \in FrameKinds : ServerSend(k)
    \/ ConnectionLost
    \/ \E rd \in Reads : LoopRecv(rd)
    \/ LoopDispatch
    \/ \E i \in running, o \in {"ok", "raise"} : HandlerEnds(i, o)
    \/ \E i \in DOMAIN ptask : PStart(i)
    \/ \E i \in DOMAIN ptask : PJobReturns(i)
    \/ \E i \in DOMAIN ptask : PJobRaises(i)
    \/ \E i \in DOMAIN ptask : PSleepElapsed(i)

Spec == Init /\ [][Next]_vars

\* The event loop of asyncio.run (line 331) runs every task that is ready:
\* run() goes on once the tasks it gathers have finished, the loop task and the
\* periodic tasks take their next step, and callbacks and jobs come to an end.
Scheduling ==
    /\ WF_vars(\E d \in Drains : RunGather(d))
    /\ WF_vars(\E c \in {"ok", "reset"} : RunClose(c))
    /\ WF_vars(\E rd \in Reads : LoopRecv(rd))
    /\ WF_vars(LoopDispatch)
    /\ WF_vars(\E i \in running, o \in {"ok", "raise"} : HandlerEnds(i, o))
    /\ WF_vars(\E i \in DOMAIN ptask :
                  PStart(i) \/ PJobReturns(i) \/ PJobRaises(i) \/ PSleepElapsed(i))

SpecLive == Init /\ [][Next]_vars /\ Scheduling

\* run() with callbacks and jobs that register while it runs
NextLate ==
    \/ Next
    \/ \E c \in BOOLEAN, ms \in FilterLists \cup {NoneList} : LateAddCallback(c, ms)
    \/ \E c \in BOOLEAN, n \in Intervals : LateAddPeriodicTask(c, n)

SpecLate == Init /\ [][NextLate]_vars

(***************************************************************************)
(* start_listening() and stop_listening() are public and synchronous: a    *)
(* callback or a periodic job can call them while run() blocks.  A job     *)
(* runs in its own task, so the loop task is suspended at an await when    *)
(* the job calls; a callback runs in the loop task itself, and cancel() on *)
(* the running task only marks it (must_cancel).                           *)
(***************************************************************************)
\* the callback that the loop task is running calls stop_listening(), lines
\* 204-209
HandlerStops ==
    /\ lpc = "handler"
    /\ idx \in running
    /\ IF listening
       THEN /\ listening' = FALSE
            /\ listen_task' = "None"
            /\ must_cancel' = (listen_task # "None")
       ELSE UNCHANGED <<listening, listen_task, must_cancel>>
    /\ op' = "stop_listening"
    /\ UNCHANGED <<lpc, cur, idx, called, failed, running>>
    /\ UNCHANGED <<writer, system_name, callbacks, periodic_tasks, message_buffer,
                   inflight, sent, wire, usends, ret, exc, out>>
    /\ UNCHANGED <<runVars, ptask, logVars>>

\* a callback that is a coroutine suspends after it has called
\* stop_listening(): the CancelledError is raised there and ends the loop task
HandlerSuspends ==
    /\ lpc = "handler"
    /\ must_cancel
    /\ lpc' = "done"
    /\ running' = {}
    /\ must_cancel' = FALSE
    /\ UNCHANGED <<cur, idx, called, failed>>
    /\ UNCHANGED <<clientVars, inflight, sent, wire, usends>>
    /\ UNCHANGED <<callVars, runVars, ptask, logVars>>

\* the job of periodic task i calls stop_listening()
JobStops(i) ==
    /\ i \in DOMAIN ptask
    /\ ptask[i].pc = "job"
    /\ StopListening
    /\ op' = "stop_listening"
    /\ UNCHANGED <<cur, idx, called, failed>>
    /\ UNCHANGED <<writer, system_name, callbacks, periodic_tasks, message_buffer,
                   inflight, sent, wire, usends, ret, exc, out>>
    /\ UNCHANGED <<runVars, ptask, logVars>>

\* the job of periodic task i calls start_listening().  The model follows one
\* loop task: the call is made when no stopped task is still running
JobStarts(i) ==
    /\ i \in DOMAIN ptask
    /\ ptask[i].pc = "job"
    /\ ~must_cancel
    /\ StartListening
    /\ op' = "start_listening"
    /\ UNCHANGED <<cur, idx, called, failed>>
    /\ UNCHANGED <<writer, system_name, callbacks, periodic_tasks, message_buffer,
                   inflight, sent, wire, usends, ret, exc, out>>
    /\ UNCHANGED <<runVars, ptask, logVars>>

\* the while test of line 309 finds the flag cleared: run() leaves the loop
\* and enters the finally block, as it does on Ctrl+C
RunWakes(d) == ~listening /\ Interrupt(d)

NextListen ==
    \/ Next
    \/ HandlerStops
    \/ HandlerSuspends
    \/ \E i \in DOMAIN ptask : JobStops(i)
    \/ \E i \in DOMAIN ptask : JobStarts(i)
    \/ \E d \in Drains : RunWakes(d)

SpecListen == Init /\ [][NextListen]_vars

\* the registration calls of a script on their own, with any interval
AnyIntervals == {0, 1}

NextRegistration ==
    \/ \E c \in BOOLEAN, ms \in FilterLists \cup {NoneList} : AddCallback(c, ms)
    \/ \E c \in BOOLEAN, n \in AnyIntervals : AddPeriodicTask(c, n)

SpecRegistration == Init /\ [][NextRegistration]_vars

(***************************************************************************)
(* Periodic jobs that call send() while run() blocks.  Each job runs in    *)
(* the task of its _run_periodic_task; the tasks share self._writer and    *)
(* are switched only at an await.  A task suspended in the drain() of a    *)
(* send it made has pc "drain"; todo holds the chunks that send has still  *)
(* to hand to write().                                                     *)
(***************************************************************************)
\* periodic tasks that send
NumSenders == 2

\* a send that writes the JSON text and the newline apart, flushing each
TwoWrites(m) == << Dumps(m), << "NL" >> >>

\* lines 102-103: the frame is built whole and handed to one write() call
WriteChunks(m) == << Dumps(m) \o << "NL" >> >>

\* run() blocking in the loop of line 309 with NumSenders periodic tasks, each
\* in its job, on a connection whose handshake gave the system name
InitSenders ==
    /\ writer = "open"
    /\ system_name = ConnectName("name")
    /\ listening = TRUE
    /\ listen_task = "task"
    /\ callbacks = <<>>
    /\ periodic_tasks = [i \in 1..NumSenders |-> [interval |-> 1]]
    /\ message_buffer = <<>>
    /\ inflight = <<>>
    /\ sent = 0
    /\ wire = <<>>
    /\ usends = 0
    /\ op = "run"
    /\ ret = NoneVal
    /\ exc = "none"
    /\ out = ""
    /\ rpc = "block"
    /\ handles = "bound"
    /\ lpc = "recv"
    /\ cur = NoMsg
    /\ idx = 0
    /\ called = {}
    /\ failed = FALSE
    /\ running = {}
    /\ must_cancel = FALSE
    /\ ptask = [i \in 1..NumSenders |-> [NewTask EXCEPT !.pc = "job"]]
    /\ decoded = <<>>
    /\ taken = <<>>
    /\ data = <<>>
    /\ stream = <<>>

\* the job of task i calls send(): the decorator, lines 99-103 with the first
\* write(), and the task suspends at the await of line 104
JobSends(i, a) ==
    /\ i \in DOMAIN ptask
    /\ ptask[i].pc = "job"
    /\ usends < MaxSends
    /\ IF ~RequireConnection(writer, system_name)
       THEN /\ out' = Refusal(writer, system_name)
            /\ UNCHANGED <<wire, usends, stream, ptask>>
       ELSE LET m == WithSrc(Msg(a, Absent), TRUE, system_name)
            IN  /\ wire' = Append(wire, m)
                /\ usends' = usends + 1
                /\ stream' = stream \o Head(WriteChunks(m))
                /\ ptask' = [ptask EXCEPT ![i].pc = "drain",
                                          ![i].todo = Tail(WriteChunks(m))]
                /\ out' = ""
    /\ UNCHANGED <<clientVars, inflight, sent, op, ret, exc>>
    /\ UNCHANGED <<runVars, loopVars, decoded, taken, data>>

\* task i resumes in send(): it writes what the send has still to write and
\* suspends again, or its drain() of line 104 returns (d = "ok") and the job
\* goes on, or drain() raises (d = "reset") and the exception leaves the job
\* for lines 265-266
SendResumes(i, d) ==
    /\ i \in DOMAIN ptask
    /\ ptask[i].pc = "drain"
    /\ IF ptask[i].todo # <<>>
       THEN /\ stream' = stream \o Head(ptask[i].todo)
            /\ ptask' = [ptask EXCEPT ![i].todo = Tail(@)]
            /\ writer' = writer
       ELSE /\ stream' = stream
            /\ writer' = IF d = "ok" THEN writer ELSE "closing"
            /\ ptask' = IF d = "ok" THEN [ptask EXCEPT ![i].pc = "job"]
                        ELSE [ptask EXCEPT ![i].pc = LoopHead(listening),
                                           ![i].gap = IF listening THEN "none"
                                                      ELSE @]
    /\ UNCHANGED <<system_name, listening, listen_task, callbacks, periodic_tasks,
                   message_buffer, inflight, sent, wire, usends>>
    /\ UNCHANGED <<callVars, runVars, loopVars, decoded, taken, data>>

NextSenders ==
    \/ \E i \in DOMAIN ptask, a \in Abbrevs : JobSends(i, a)
    \/ \E i \in DOMAIN ptask, d \in Drains : SendResumes(i, d)
    \/ \E i \in DOMAIN ptask : PJobReturns(i)
    \/ \E i \in DOMAIN ptask : PSleepElapsed(i)
    \/ ConnectionLost

SpecSenders == InitSenders /\ [][NextSenders]_vars

(***************************************************************************)
(* _callbacks is a plain list of (callback, filter) tuples, and line 179   *)
(* accepts a filter of None.  SpecReg starts run() from every such         *)
(* registry, leaving room in the budget for one more input.                *)
(***************************************************************************)
Registries ==
    UNION {[1..n -> [filter : FilterLists \cup {NoneList}]] : n \in 1..(MaxInputs - 1)}

InitReg ==
    /\ callbacks \in Registries
    /\ writer = "None"
    /\ system_name = NoneVal
    /\ listening = FALSE
    /\ listen_task = "None"
    /\ periodic_tasks = <<>>
    /\ message_buffer = <<>>
    /\ inflight = <<>>
    /\ sent = 0
    /\ wire = <<>>
    /\ usends = 0
    /\ op = "init"
    /\ ret = NoneVal
    /\ exc = "none"
    /\ out = ""
    /\ rpc = "idle"
    /\ handles = "unbound"
    /\ lpc = "none"
    /\ cur = NoMsg
    /\ idx = 0
    /\ called = {}
    /\ failed = FALSE
    /\ running = {}
    /\ must_cancel = FALSE
    /\ ptask = <<>>
    /\ decoded = <<>>
    /\ taken = <<>>
    /\ data = <<>>
    /\ stream = <<>>

SpecReg == InitReg /\ [][Next]_vars

(***************************************************************************)
(* Properties of the directly called methods (SpecApi).                    *)
(***************************************************************************)
Last(q) == q[Len(q)]

GuardedOps == {"send", "receive", "subscribe", "unsubscribe"}
WritingOps == {"send", "subscribe", "unsubscribe"}

\* C6: a send, receive, subscribe or unsubscribe called while there is no open
\* connection (never connected, or closed) writes nothing to the socket, returns
\* None and raises nothing.
C6_RefusedWhenNotConnected ==
    [][(writer # "open" /\ op' \in GuardedOps)
        => (wire' = wire /\ ret' = NoneVal /\ exc' = "none" /\ out' # "")]_vars

\* a send after connect, a written frame and close was refused
C6_Witness ==
    /\ op = "send"
    /\ writer = "None"
    /\ system_name = "vehicle01"
    /\ wire # <<>>
    /\ out = "Not connected to server"
    /\ exc = "none"

\* C7: after a connect whose handshake timed out or was not JSON (it returned
\* None and left the connection open), the next send, subscribe or unsubscribe
\* writes its frame to the socket.
C7_UsableAfterFailedHandshake ==
    [][(op = "connect" /\ exc = "none" /\ ret = NoneVal /\ writer = "open"
        /\ op' \in WritingOps)
        => (Len(wire') = Len(wire) + 1 /\ Last(wire').src = Absent)]_vars

\* what the claim says a regular message is written as
ClaimedSrc(m, sn) == IF m.src = Absent THEN sn ELSE m.src

\* C10 as stated: a regular message sent with auto-src is written with the system
\* name as src iff the caller gave none, and with the caller's src otherwise;
\* commands are written without src.
C10_AutoSrcAsStated ==
    [][Wrote =>
        /\ \A m \in UserMsgs, d \in Drains :
             (op' = "send" /\ Send(m, TRUE, d))
                => Last(wire').src = ClaimedSrc(m, system_name)
        /\ Last(wire').command # Absent => Last(wire').src = Absent]_vars

\* C10 amended: the same, for a system name that is not empty; with an empty
\* system name the message is written as the caller gave it.
C10_AutoSrc ==
    [][Wrote =>
        /\ \A m \in UserMsgs, d \in Drains :
             (op' = "send" /\ Send(m, TRUE, d))
                => Last(wire').src = IF system_name = "" THEN m.src
                                     ELSE ClaimedSrc(m, system_name)
        /\ Last(wire').command # Absent => Last(wire').src = Absent]_vars

\* one connection has carried an auto-filled src, a caller's src and a command
C10_Witness ==
    /\ system_name = "vehicle01"
    /\ \E i \in 1..Len(wire) : wire[i].src = "vehicle01"
    /\ \E i \in 1..Len(wire) : wire[i].src = "other"
    /\ \E i \in 1..Len(wire) : wire[i].command = "subscribe"

\* C15: close() on a client that is closed or was never connected raises
\* nothing, prints nothing and changes neither the client nor the socket, so a
\* second close leaves the state the first one left.
C15_CloseIdempotent ==
    [][(writer = "None" /\ op' = "close")
        => /\ exc' = "none"
           /\ ret' = NoneVal
           /\ out' = ""
           /\ UNCHANGED <<clientVars, inflight, sent, wire, usends>>]_vars

\* a close that found nothing to close, on a client that had been connected
\* and had written
C15_Witness ==
    /\ op = "close"
    /\ out = ""
    /\ exc = "none"
    /\ writer = "None"
    /\ system_name = "vehicle01"
    /\ wire # <<>>

\* the frames a full stop is to write: position 0.0 for the ids 0..7 in order
StopFrames == [i \in 1..num_fins |-> [abbrev |-> "DesiredServoPosition",
                                      id |-> i - 1, position |-> "0.0"]]

WithoutSrc(m) == [abbrev |-> m.abbrev, id |-> m.id, position |-> m.position]

\* the frames written by the step
Written == [i \in 1..(Len(wire') - Len(wire)) |-> WithoutSrc(wire'[Len(wire) + i])]

\* C16: a stop() on a controller whose connection is open, and stays open
\* during the call, writes the 8 DesiredServoPosition messages with position
\* 0.0 for the ids 0..7, in ascending order, and nothing else.
C16_StopWritesEightZeros ==
    [][(writer = "open" /\ op' = "stop" /\ exc' = "none" /\ writer' = "open"
        /\ (op # "stop" \/ wire' # wire \/ out' # out))
        => Written = StopFrames]_vars

(***************************************************************************)
(* Properties of run(), the dispatch loop and the periodic tasks (Spec,    *)
(* SpecReg).                                                               *)
(***************************************************************************)
Matching(msg) == {i \in 1..Len(callbacks) : Matches(callbacks[i].filter, msg)}

\* the for loop over the callbacks is not under way
DispatchOver == lpc \notin {"dispatch", "handler"} \/ idx > Len(callbacks)

\* C1: while the client is listening, once a message taken for dispatch has been
\* distributed, the callbacks invoked with it are exactly those whose filter is
\* None or contains its abbrev.
C1_InvokedIffMatches ==
    (listening /\ cur # NoMsg /\ DispatchOver) => called = Matching(cur)

\* C2: after a handler raised, the dispatch loop is still running while the
\* client is listening: it goes on with the remaining handlers and with later
\* messages.
C2_RaisingHandlerIsolated ==
    (listening /\ failed) => lpc \in {"recv", "dispatch", "handler"}

\* C3: the messages handed to the loop, followed by the buffered ones, are the
\* decoded messages in arrival order: nothing is reordered, duplicated or lost,
\* and the message being distributed is the one taken last.
C3_ArrivalOrder ==
    /\ taken \o message_buffer = decoded
    /\ cur # NoMsg => (taken # <<>> /\ cur = Last(taken))

\* one read yielded A then B: A is being distributed, B waits in the buffer
C3_Witness ==
    /\ lpc = "dispatch"
    /\ taken = << [abbrev |-> "A"] >>
    /\ message_buffer = << [abbrev |-> "B"] >>

C5_ClosedOnEveryExit ==
    rpc \in {"returned", "raised"} => writer = "None"

\* C8: a periodic job is never invoked again without a full sleep since its
\* previous invocation, also when that invocation raised.
C8_SleepBetweenInvocations ==
    \A i \in DOMAIN ptask : ptask[i].gap # "none"

\* C9: a periodic task cancelled during its sleep has finished: it neither
\* waits out the interval nor invokes the job again.
C9_CancelledInSleepExits ==
    \A i \in DOMAIN ptask : ptask[i].cancelled = "sleep" => ptask[i].pc = "done"

\* run() has returned after cancelling a task that was asleep
C9_Witness ==
    /\ rpc = "returned"
    /\ \E i \in DOMAIN ptask : ptask[i].cancelled = "sleep" /\ ptask[i].gap = "slept"

\* the frames the server can have sent, as sequences of kinds
KindSeqs == UNION {[1..n -> FrameKinds] : n \in 1..MaxInputs}

\* the bytes of the frames ks, as the server writes them
RECURSIVE Stream(_)
Stream(ks) == IF ks = <<>> THEN <<>> ELSE Frame(Head(ks)) \o Stream(Tail(ks))

\* the messages of the frames ks that are JSON, in order
RECURSIVE Good(_)
Good(ks) == IF ks = <<>> THEN <<>>
            ELSE IF Head(ks) = "bad" THEN Good(Tail(ks))
            ELSE << [abbrev |-> Head(ks)] >> \o Good(Tail(ks))

\* a read returned bytes
ReadStep == sent' = sent /\ Len(inflight') < Len(inflight)

\* C11: a read loses no frame, wherever it ends: the messages decoded so far,
\* followed by the messages of the bytes still to be read, are the same before
\* and after it, so a frame split across two reads is decoded once and intact.
C11_SplitFrameReassembled ==
    [][ReadStep => decoded' \o DecodeBatch(inflight')
                      = decoded \o DecodeBatch(inflight)]_vars

C20_SerializedInOrder ==
    [][/\ Cardinality(running') <= 1
       /\ running' # {} => (lpc' = "handler" /\ running' = {idx'})
       /\ \A i \in called' \ called :
             /\ running = {}
             /\ cur' = cur => \A j \in called : j < i
       /\ taken' # taken => running = {}]_vars

\* the second of two matching callbacks is running, after the first finished
C20_Witness ==
    /\ lpc = "handler"
    /\ Len(callbacks) = 2
    /\ called = {1, 2}
    /\ running = {2}
    /\ ~failed

RegistrationOps == {"add_callback", "add_periodic_task"}

\* C13: once run() has started, both registries stay as they are, and a call
\* of add_callback or add_periodic_task raises a registration error.
C13_LateRegistrationRejected ==
    [][rpc # "idle" =>
        /\ callbacks' = callbacks
        /\ periodic_tasks' = periodic_tasks
        /\ (op' # op /\ op' \in RegistrationOps) => exc' # "none"]_vars

\* C14: every periodic registration held by the client has an interval > 0, and
\* a registration call that raised left both registries as they were.
C14_RegistrationsValid ==
    [][/\ \A i \in 1..Len(periodic_tasks') : periodic_tasks'[i].interval > 0
       /\ exc' # "none" => (callbacks' = callbacks
                             /\ periodic_tasks' = periodic_tasks)]_vars

\* C17: a periodic task cancelled while its job is being invoked is still in
\* that invocation after the cancellation; it leaves it only when the job has
\* returned or raised.
C17_InvocationNotAborted ==
    [][\A i \in DOMAIN ptask \cap DOMAIN ptask' :
          (ptask[i].pc = "job" /\ ptask[i].cancelled = "no"
           /\ ptask'[i].cancelled = "job") => ptask'[i].pc = "job"]_vars

\* run() has written its unsubscribe command
Unsubscribed == wire # <<>> /\ Last(wire).command = "unsubscribe"

\* the dispatch loop is stopped and every periodic task has finished
AllStopped ==
    /\ ~listening
    /\ lpc \in {"none", "done"}
    /\ running = {}
    /\ \A i \in DOMAIN ptask : ptask[i].pc = "done"

\* C18: while run() awaits the cancelled periodic tasks the loop is already
\* stopped and neither unsubscribe nor close has happened; when unsubscribe is
\* written, and from then on, the loop is stopped and every periodic task has
\* finished, no callback and no job is invoked any more; run() returns with the
\* connection closed, and nothing is written after that.
C18_TeardownOrder ==
    [][/\ rpc' = "gather" =>
            (~listening' /\ lpc' \in {"none", "done"} /\ ~Unsubscribed'
             /\ writer' # "None")
       /\ (Unsubscribed' \/ rpc' \in {"close", "returned"}) => AllStopped'
       /\ (Unsubscribed \/ rpc \in {"close", "returned", "raised"}) =>
            /\ called' = called
            /\ running' = running
            /\ \A i \in DOMAIN ptask : ptask'[i].pc = "job" => ptask[i].pc = "job"
       /\ rpc' = "returned" => writer' = "None"
       /\ rpc = "returned" => (wire' = wire /\ writer' = "None")]_vars

\* run() has returned after a message was distributed to a callback and a
\* periodic task was cancelled, with the subscription and the unsubscribe
\* command on the wire
C18_Witness ==
    /\ rpc = "returned"
    /\ Len(wire) = 2
    /\ Unsubscribed
    /\ called # {}
    /\ \E i \in DOMAIN ptask : ptask[i].cancelled # "no"

\* C19: when run() has subscribed on a connection that is open and whose
\* handshake gave a system name, exactly one command has been written, while
\* neither the loop nor a periodic task has been started: subscribe_all when
\* the union of the registered filters is empty, and subscribe with exactly
\* that union when every filter is non-empty.
C19_OneSubscription ==
    (rpc = "start" /\ system_name # NoneVal /\ out = "") =>
        /\ lpc = "none" /\ ptask = <<>>
        /\ Len(wire) = 1
        /\ AllMessages = {} => wire[1].command = "subscribe_all"
        /\ (\A i \in 1..Len(callbacks) : Truthy(callbacks[i].filter)) =>
              (AllMessages # {} =>
                 (wire[1].command = "subscribe"
                  /\ Range(wire[1].messages) = AllMessages
                  /\ Len(wire[1].messages) = Cardinality(AllMessages)))

(***************************************************************************)
(* Concurrent sends.                                                       *)
(***************************************************************************)
IsPrefix(s, t) == Len(s) <= Len(t) /\ s = SubSeq(t, 1, Len(s))

\* the frames of the messages handed to send() so far, one after the other
WireFrames == Stream([k \in 1..Len(wire) |-> wire[k].abbrev])

\* C21: whatever the order in which the sending tasks are resumed, the bytes
\* handed to the transport are the frames of the messages sent, whole and one
\* after the other: no byte of a frame lies between two bytes of another
\* frame, and once no send has bytes left to write every frame is complete.
C21_FramesContiguous ==
    /\ IsPrefix(stream, WireFrames)
    /\ (\A i \in DOMAIN ptask : ptask[i].todo = <<>>) => stream = WireFrames

\* two tasks are suspended in send() at the same time, each with its frame
\* written, and the frames are of different messages
C21_Witness ==
    /\ \E i, j \in DOMAIN ptask :
          i # j /\ ptask[i].pc = "drain" /\ ptask[j].pc = "drain"
    /\ Len(wire) >= 2
    /\ wire[1].abbrev # wire[2].abbrev
    /\ Len(stream) = 3 * Len(wire)

(***************************************************************************)
(* The listening flag and the loop task.                                   *)
(***************************************************************************)
LoopAlive == lpc \in {"recv", "dispatch", "handler"}

\* C23: whenever the listening flag is set, the dispatch loop task is alive:
\* the flag is never left set by a loop that has ended, so run() never keeps
\* blocking, and no periodic task keeps running, without a loop.
C23_ListeningHasLoop == listening => LoopAlive

\* C24: start_listening() called while the flag is set leaves the loop task
\* as it is and creates no other, and once stop_listening() has cleared the
\* flag the task it stopped takes no further message from receive() and
\* invokes no further callback.
C24_StoppedTaskIsSilent ==
    [][/\ \A i \in DOMAIN ptask :
             (listening /\ JobStarts(i)) => UNCHANGED <<lpc, listen_task>>
       /\ ~listening => (called' \subseteq called /\ taken' = taken)]_vars

(***************************************************************************)
(* Shutdown.                                                               *)
(***************************************************************************)
\* the finally block of run() was entered from the blocking loop
SignalRaised == handles = "bound" /\ rpc # "block"

\* C22: once the cancellation signal has been raised in run(), the dispatch
\* loop and every periodic task have eventually terminated and run() has
\* returned with the connection closed.
C22_ShutdownCompletes ==
    SignalRaised ~> (rpc = "returned" /\ writer = "None" /\ AllStopped)

====
